---- MODULE Spec2Model ----
(***************************************************************************)
(* FlowBase: the Network scheduler (src/unnamed/part_000), the port        *)
(* connection and close-cascade protocol (src/port.go), the base process   *)
(* (src/baseprocess.go) and the node bodies used by the repository's own   *)
(* tests and examples (src/network_test.go, src/unnamed/part_007).         *)
(*                                                                         *)
(* Every node owns at most one InPort and at most one OutPort, so a port   *)
(* is identified by the name of its owning node: the registry key          *)
(* Process().Name() + "." + name of src/port.go:36 and :153 is one-to-one  *)
(* with the owner.  A thread is one invocation of some node's Run().       *)
(***************************************************************************)
EXTENDS Integers, Sequences, FiniteSets, TLC

VARIABLES
    procs,      \* Network.procs: the names registered with AddProc
    sink,       \* Network.sink
    driver,     \* Network.driver
    outRemote,  \* OutPort.RemotePorts, per owning node: the owners of the remote InPorts
    inRemote,   \* InPort.RemotePorts, per owning node: the owners of the remote OutPorts
    outReady,   \* OutPort.ready
    inReady,    \* InPort.ready
    chan,       \* InPort.Chan: the buffered items
    closed,     \* InPort.Chan has been closed
    closeLock,  \* InPort.closeLock: "free" or the thread holding it
    thr,        \* the goroutines: the workers and the caller ("main")
    recvd,      \* per node, the items its Run() has received so far
    status,     \* "ok", "fatal" (os.Exit(1) in Fail) or "panic" (Go runtime panic)
    call,       \* the record of the current Run()/RunToProcs() call
    lsink,      \* a channel-list Sink of src/sink.go and the channels connected to it
    api,        \* the last call of a port's method made by the program itself
    registry,   \* Network.procs as a map: per name, the node registered under it
    ip,         \* an IP (Packet / FileIP): its tags and the progress of FinalizePath
    pnet,       \* a list-based runner (Net / PipelineRunner) and its processes
    bp,         \* a BaseProcess with several InPorts and its receiveOnInPorts call
    noProc,     \* the owners-by-name of the InPorts whose field process is nil
    ct          \* Network.concurrentTasks and concurrentTasksMx, and their callers

vars == <<procs, sink, driver, outRemote, inRemote, outReady, inReady, chan,
          closed, closeLock, thr, recvd, status, call, lsink, api, registry, ip, pnet,
          bp, noProc, ct>>

netVars == <<procs, sink, driver, outRemote, inRemote, outReady, inReady, chan,
             closed, closeLock, thr, recvd, status, call, api, registry, ip, pnet,
             bp, noProc, ct>>

portVars == <<outRemote, inRemote, outReady, inReady>>

-----------------------------------------------------------------------------
(* Bounds *)
NItems == 4        \* items every source sends
BufSize == 1       \* channel capacity returned by getBufsize()
MaxTargets == 2    \* arguments of one RunToProcs() call
MaxChans == 3      \* channels connected to a channel-list Sink
MaxVals == 1       \* values sent on one such channel
MaxSame == 2       \* nodes constructed under one name
MaxProcs == 3      \* processes added to a list-based runner
MaxIPs == 2        \* distinct IPs sent to the InPorts of one BaseProcess
MaxTasks == 2      \* maxConcurrentTasks given to NewNetwork

-----------------------------------------------------------------------------
(* The nodes of the workflow under construction *)
Nodes == {"a", "b", "c", "d"}
Sinks == {"sink", "sink2"}
DefaultSink == "sink"
None == "none"

\* two more FileSources, each constructed with a single file path; they take
\* part in the fan-in workflows only (SpecFanIn below)
FanInSources == {"e", "f"}
AllNodes == Nodes \cup FanInSources

\* "a" is a FileSource (one OutPort), "b" a MapToTags (one InPort and one
\* OutPort), "c" a StringPrinter (one InPort), "d" a BogusProcess (no port).
\* A Sink owns one InPort.
\* "p" owns one OutParamPort and "q" one InParamPort; they are connected and
\* closed by direct calls only (SpecPorts below) and take part in no run.
\* "feeder" stands for the OutParamPort "string_feeder" that q's
\* InParamPort.FromStr makes, and for the goroutine that sends on it.
ParamNodes == {"p", "q", "feeder"}
OutPorts(n) == IF n \in {"a", "b"} \cup FanInSources THEN {"out"}
               ELSE IF n = "p" THEN {"param_out"}
               ELSE IF n = "feeder" THEN {"string_feeder"} ELSE {}
InPorts(n) == IF n \in {"b", "c"} \cup Sinks THEN {"in"}
              ELSE IF n = "q" THEN {"param_in"} ELSE {}

OutOwners == {n \in AllNodes \cup ParamNodes : OutPorts(n) # {}}
InOwners == {n \in AllNodes \cup ParamNodes \cup Sinks : InPorts(n) # {}}

Threads == AllNodes \cup {"main", "feeder"}

\* len(p.filePaths) of a FileSource, and its k-th item (the items of distinct
\* sources are distinct)
ItemsOf(n) == IF n \in FanInSources \cup {"feeder"} THEN 1 ELSE NItems
ItemOf(n, k) == IF n = "e" THEN NItems + k ELSE IF n = "f" THEN NItems + 1 + k ELSE k

Free == "free"

-----------------------------------------------------------------------------
(* Ports: src/port.go.  The operators work on a record P of the four port  *)
(* registries plus a flag "fatal" that is set where the code calls Fail    *)
(* (os.Exit(1)); nothing is executed after a Fail.                         *)

\* InPort.AddRemotePort
InPort_AddRemotePort(P, i, o) ==
    IF P.fatal THEN P
    ELSE IF o \in P.inRemote[i] THEN [P EXCEPT !.fatal = TRUE]
    ELSE [P EXCEPT !.inRemote[i] = @ \cup {o}]

\* OutPort.AddRemotePort
OutPort_AddRemotePort(P, o, i) ==
    IF P.fatal THEN P
    ELSE IF i \in P.outRemote[o] THEN [P EXCEPT !.fatal = TRUE]
    ELSE [P EXCEPT !.outRemote[o] = @ \cup {i}]

\* SetReady(true) on both ends, the tail of From and To
SetBothReady(P, i, o) ==
    IF P.fatal THEN P
    ELSE [P EXCEPT !.inReady[i] = TRUE, !.outReady[o] = TRUE]

\* (mutant of InPort_From: the OutPort is not told about the InPort)
InPort_FromOneSided(P, i, o) == SetBothReady(InPort_AddRemotePort(P, i, o), i, o)

\* InPort.From
InPort_From(P, i, o) ==
    SetBothReady(OutPort_AddRemotePort(InPort_AddRemotePort(P, i, o), o, i), i, o)

\* OutPort.To
OutPort_To(P, o, i) ==
    SetBothReady(InPort_AddRemotePort(OutPort_AddRemotePort(P, o, i), i, o), i, o)

\* (mutant of OutPort_removeRemotePort: the entry stays in the registry)
OutPort_removeRemotePortKeepsEntry(P, o, i) ==
    IF P.fatal THEN P
    ELSE IF i \notin P.outRemote[o] THEN [P EXCEPT !.fatal = TRUE]
    ELSE P

\* OutPort.removeRemotePort
OutPort_removeRemotePort(P, o, i) ==
    IF P.fatal THEN P
    ELSE IF i \notin P.outRemote[o] THEN [P EXCEPT !.fatal = TRUE]
    ELSE [P EXCEPT !.outRemote[o] = @ \ {i}]

\* (mutant of OutPort_Disconnect: the ready flag is left set)
OutPort_DisconnectKeepsReady(P, o, i) == OutPort_removeRemotePort(P, o, i)

\* OutPort.Disconnect: only the OutPort's own registry and flag change
OutPort_Disconnect(P, o, i) ==
    LET P1 == OutPort_removeRemotePort(P, o, i) IN
    IF P1.fatal THEN P1
    ELSE IF P1.outRemote[o] = {} THEN [P1 EXCEPT !.outReady[o] = FALSE]
    ELSE P1

\* InPort.removeRemotePort
InPort_removeRemotePort(P, i, o) ==
    IF P.fatal THEN P
    ELSE IF o \notin P.inRemote[i] THEN [P EXCEPT !.fatal = TRUE]
    ELSE [P EXCEPT !.inRemote[i] = @ \ {o}]

\* InPort.Disconnect: only the InPort's own registry and flag change
InPort_Disconnect(P, i, o) ==
    LET P1 == InPort_removeRemotePort(P, i, o) IN
    IF P1.fatal THEN P1
    ELSE IF P1.inRemote[i] = {} THEN [P1 EXCEPT !.inReady[i] = FALSE]
    ELSE P1

\* InParamPort.AddRemotePort
InParamPort_AddRemotePort(P, i, o) ==
    IF P.fatal THEN P
    ELSE IF o \in P.inRemote[i] THEN [P EXCEPT !.fatal = TRUE]
    ELSE [P EXCEPT !.inRemote[i] = @ \cup {o}]

\* (mutant of OutParamPort_AddRemotePort: an existing entry is overwritten)
OutParamPort_AddRemotePortUnchecked(P, o, i) ==
    IF P.fatal THEN P ELSE [P EXCEPT !.outRemote[o] = @ \cup {i}]

\* OutParamPort.AddRemotePort
OutParamPort_AddRemotePort(P, o, i) ==
    IF P.fatal THEN P
    ELSE IF i \in P.outRemote[o] THEN [P EXCEPT !.fatal = TRUE]
    ELSE [P EXCEPT !.outRemote[o] = @ \cup {i}]

\* InParamPort.From
InParamPort_From(P, i, o) ==
    SetBothReady(OutParamPort_AddRemotePort(InParamPort_AddRemotePort(P, i, o), o, i), i, o)

\* OutParamPort.To
OutParamPort_To(P, o, i) ==
    SetBothReady(InParamPort_AddRemotePort(OutParamPort_AddRemotePort(P, o, i), i, o), i, o)

\* OutParamPort.removeRemotePort: a plain delete, a missing name is no error
OutParamPort_removeRemotePort(P, o, i) ==
    IF P.fatal THEN P ELSE [P EXCEPT !.outRemote[o] = @ \ {i}]

\* OutParamPort.Disconnect
OutParamPort_Disconnect(P, o, i) ==
    LET P1 == OutParamPort_removeRemotePort(P, o, i) IN
    IF P1.fatal THEN P1
    ELSE IF P1.outRemote[o] = {} THEN [P1 EXCEPT !.outReady[o] = FALSE]
    ELSE P1

\* Sink.From: the Sink's InPort is connected to the OutPort
Sink_From(P, s, o) == InPort_From(P, s, o)

\* Sink.Ready
Sink_Ready(P, s) == P.inReady[s]

\* BaseProcess.Ready: every in-port and every out-port is ready
BaseProcess_Ready(P, n) ==
    /\ \A pt \in InPorts(n) : P.inReady[n]
    /\ \A pt \in OutPorts(n) : P.outReady[n]

\* (mutant of CloseIfEmpty: the channel is closed whatever the registry holds)
CloseAlways(reg) == TRUE

\* the condition of InPort.CloseConnection under which the channel is closed
CloseIfEmpty(reg) == reg = {}

\* (mutant of LockAcquirable: CloseConnection takes no lock)
LockIgnored(l) == TRUE

\* closeLock.Lock() returns only while no other goroutine holds the lock
LockAcquirable(l) == l = Free

\* (mutant of RangeRemotePorts: the loop stops after its first remote port)
RangeFirstOnly(reg) == IF reg = {} THEN {} ELSE {CHOOSE i \in reg : TRUE}

\* the InPorts OutPort.Send and OutPort.Close range over
RangeRemotePorts(reg) == reg

-----------------------------------------------------------------------------
(* Network: src/unnamed/part_000 *)

\* the orders in which "for _, node := range procs" may visit a map
Orders(S) ==
    {q \in [1..Cardinality(S) -> S] : \A x, y \in DOMAIN q : q[x] = q[y] => x = y}

\* (mutant of LeavesRunSet: no edge is taken to leave the run-set)
LeavesNever(i, runset) == FALSE

\* the test of reconnectDeadEndConnections for an edge that leaves the run-set:
\* the remote InPort's owner is not a key of procs
LeavesRunSet(i, runset) == i \notin runset

\* the loop over opt.RemotePorts of reconnectDeadEndConnections for one OutPort
RECURSIVE DisconnectDeadEnds(_, _, _, _)
DisconnectDeadEnds(R, o, todo, runset) ==
    IF todo = {} \/ R.fatal THEN R
    ELSE LET i == CHOOSE x \in todo : TRUE
             \* "ipt.Process() == nil": InPort.Process() itself fails on a nil
             \* process (and Fail, through Name(), calls Process() again)
             R1 == IF i \in R.noProc THEN [R EXCEPT !.fatal = TRUE]
                   ELSE IF LeavesRunSet(i, runset) THEN OutPort_Disconnect(R, o, i)
                   ELSE R
         IN DisconnectDeadEnds(R1, o, todo \ {i}, runset)

\* "if !opt.Ready() { net.sink.From(opt) }"
AttachToSink(R, o) ==
    IF R.fatal \/ R.outReady[o] THEN R
    ELSE [Sink_From(R, R.sink, o) EXCEPT !.attached = @ \cup {o}]

\* (mutant of ElectDriver: a later zero-out-port node replaces the earlier one)
ElectDriverLastWins(R, n) ==
    IF R.fatal \/ OutPorts(n) # {} THEN R
    ELSE [R EXCEPT !.found = TRUE, !.driver = n]

\* "if len(node.OutPorts()) == 0 { ... net.driver = node }"
ElectDriver(R, n) ==
    IF R.fatal \/ OutPorts(n) # {} THEN R
    ELSE IF R.found THEN [R EXCEPT !.fatal = TRUE]
    ELSE [R EXCEPT !.found = TRUE, !.driver = n]

\* the body of the loop over the run-set for one node
RepairNode(R, n, runset) ==
    LET R1 == IF OutPorts(n) # {}
              THEN AttachToSink(
                       DisconnectDeadEnds(R, n, RangeRemotePorts(R.outRemote[n]), runset), n)
              ELSE R
    IN ElectDriver(R1, n)

RECURSIVE RepairLoop(_, _, _, _)
RepairLoop(R, order, k, runset) ==
    IF k > Len(order) \/ R.fatal THEN R
    ELSE RepairLoop(RepairNode(R, order[k], runset), order, k + 1, runset)

\* "if foundNewDriverProc && len(procs) > 1 { delete(net.procs, net.driver.Name()) }"
RemoveDriverFromProcs(R, runset) ==
    IF ~R.fatal /\ R.found /\ Cardinality(runset) > 1
    THEN [R EXCEPT !.procs = @ \ {R.driver}]
    ELSE R

\* Network.reconnectDeadEndConnections(procs), the run-set visited in the given order
reconnectDeadEndConnections(R, order, runset) ==
    RemoveDriverFromProcs(RepairLoop([R EXCEPT !.found = FALSE], order, 1, runset), runset)

\* Network.readyToRun(procs)
readyToRun(R, ps) ==
    /\ ps # {}
    /\ R.sink # None
    /\ \A n \in ps : BaseProcess_Ready(R, n)

\* (mutant of upstreamProcsForProc: the direct feeders only)
upstreamProcsDirect(reg, n) == IF InPorts(n) = {} THEN {} ELSE reg[n]

\* upstreamProcsForProc(node): the owners of the remote OutPorts of the node's
\* InPorts, and recursively theirs
RECURSIVE upstreamProcsForProc(_, _)
upstreamProcsForProc(reg, n) ==
    IF InPorts(n) = {} THEN {}
    ELSE reg[n] \cup UNION {upstreamProcsForProc(reg, m) : m \in reg[n]}

\* the map RunToProcs(finalProcs...) hands to runProcs
RunToProcsSet(reg, targets) ==
    targets \cup UNION {upstreamProcsForProc(reg, t) : t \in targets}

-----------------------------------------------------------------------------
(* Node bodies.  A thread record holds the position of one invocation of   *)
(* Run(): the node, the program counter, the items sent so far (k), the    *)
(* item being sent (cur), the remote InPorts the running Send or Close     *)
(* loop has still to visit (todo), the registry as it was when Send was    *)
(* called (snap), how often Send enqueued the item on each InPort (enq),   *)
(* and the InPort whose CloseConnection is running (tgt).                  *)

ZeroEnq == [i \in InOwners |-> 0]

IdleThread ==
    [node |-> None, pc |-> "idle", k |-> 0, cur |-> 0, todo |-> {}, snap |-> {},
     enq |-> ZeroEnq, tgt |-> None]

DoneThread == [IdleThread EXCEPT !.pc = "done"]

\* OutPort.Send(item) is called
EnterSend(rec, item, reg) ==
    [rec EXCEPT !.pc = IF RangeRemotePorts(reg) = {} THEN "sent" ELSE "send",
                !.cur = item, !.todo = RangeRemotePorts(reg), !.snap = reg,
                !.enq = ZeroEnq]

\* BaseProcess.CloseOutPorts: OutPort.Close() is called
EnterClose(rec, reg) ==
    IF RangeRemotePorts(reg) = {} THEN DoneThread
    ELSE [rec EXCEPT !.pc = "close", !.cur = 0, !.todo = RangeRemotePorts(reg),
                     !.snap = {}, !.enq = ZeroEnq]

\* Sink.Run: nothing to watch when no OutPort was connected, else drain
Sink_Run(P, s) ==
    IF ~Sink_Ready(P, s) THEN DoneThread
    ELSE [IdleThread EXCEPT !.node = s, !.pc = "recv"]

\* the start of node.Run(): StringPrinter and MapToTags range over the
\* InPort's channel, FileSource sends its items
StartThread(P, n) ==
    IF n \in Sinks THEN Sink_Run(P, n)
    ELSE IF InPorts(n) # {} THEN [IdleThread EXCEPT !.node = n, !.pc = "recv"]
    ELSE IF OutPorts(n) = {} THEN DoneThread
    ELSE IF ItemsOf(n) = 0 THEN EnterClose([IdleThread EXCEPT !.node = n], P.outRemote[n])
    ELSE EnterSend([IdleThread EXCEPT !.node = n], ItemOf(n, 1), P.outRemote[n])

Running(t) == thr[t].pc \notin {"idle", "done"}

\* (mutant of Continue: the call returns only once every worker has finished)
ContinueWaitsForWorkers(t, rec, c) ==
    /\ thr' = [thr EXCEPT ![t] = IF rec.pc # "done" THEN rec
                                 ELSE IF t = "main" THEN IdleThread ELSE DoneThread]
    /\ call' = IF rec.pc = "done" /\ \A u \in Threads \ {t} : ~Running(u)
               THEN [c EXCEPT !.phase = "returned"] ELSE c

\* the thread goes on as rec; a finished goroutine leaves, and the caller's
\* return ends Run()/RunToProcs()
Continue(t, rec, c) ==
    /\ thr' = [thr EXCEPT ![t] = IF rec.pc # "done" THEN rec
                                 ELSE IF t = "main" THEN IdleThread ELSE DoneThread]
    /\ call' = IF rec.pc = "done" /\ t = "main" THEN [c EXCEPT !.phase = "returned"] ELSE c

-----------------------------------------------------------------------------
(* An IP and its tags: a map from keys to strings.  A key that is not in   *)
(* the map is Absent; reading it in Go (ip.tags[k]) gives the empty string. *)

TagKeys == {"k1", "k2"}
TagValues == {"", "x", "y"}
Absent == "absent"

\* FinalizePath of a FileIP: the loop's position and locals, the waits made so
\* far in seconds, and whether the temp file and the final file exist
NewPacket ==
    [tags |-> [k \in TagKeys |-> Absent],
     fin |-> [pc |-> "idle", tries |-> 0, sleepDurationSec |-> 0, slept |-> <<>>,
              temp |-> FALSE, final |-> FALSE]]

finalizePathMaxTries == 3
finalizePathBackoffFactor == 4

\* (mutant of TriesExhausted: one more try is allowed)
TriesExhaustedLate(tries) == tries > finalizePathMaxTries

\* "if tries >= finalizePathMaxTries"
TriesExhausted(tries) == tries >= finalizePathMaxTries

\* ip.tags[k]
TagRead(tags, k) == IF tags[k] = Absent THEN "" ELSE tags[k]

\* Packet.AddTag and FileIP.AddTag, on a record of the tags and a flag "fatal"
Packet_AddTag(T, k, v) ==
    IF T.fatal THEN T
    ELSE IF TagRead(T.tags, k) # "" /\ TagRead(T.tags, k) # v THEN [T EXCEPT !.fatal = TRUE]
    ELSE [T EXCEPT !.tags[k] = v]

\* Packet.AddTags and FileIP.AddTags: AddTag for every entry of the map m
RECURSIVE Packet_AddTags(_, _)
Packet_AddTags(T, m) ==
    IF DOMAIN m = {} THEN T
    ELSE LET k == CHOOSE x \in DOMAIN m : TRUE
         IN Packet_AddTags(Packet_AddTag(T, k, m[k]), [x \in DOMAIN m \ {k} |-> m[x]])

-----------------------------------------------------------------------------
(* The list-based runner: Net (src/network.go) and PipelineRunner.  Its     *)
(* processes are unconnected BogusProcesses, whose Run() sets WasRun.       *)

NetProcs == 1..MaxProcs

\* processes: the list; pc and i: the position of Run(); started: the
\* processes for which "go proc.Run()" was executed; WasRun: per process
NewNet ==
    [processes |-> <<>>, pc |-> "new", i |-> 0, started |-> {},
     WasRun |-> [x \in NetProcs |-> FALSE]]

\* (mutant of RunsInCaller: every process is started as a goroutine)
RunsInCallerNever(i, n) == FALSE

\* "if i < len(pl.processes)-1 { go proc.Run() } else { proc.Run() }", with
\* the index i counted from 1
RunsInCaller(i, n) == ~(i < n)

-----------------------------------------------------------------------------
(* The task slots of a Network: concurrentTasks, a channel of empty structs  *)
(* of which only the number buffered matters (len) and whose capacity is     *)
(* fixed by make (cap), and the mutex concurrentTasksMx (mx).  The callers   *)
(* are processes: pc is a caller's position, n the slots of its call and k   *)
(* the loop counter i.                                                       *)

TaskProcs == {"t1", "t2", "t3"}

\* "concurrentTasks: make(chan struct{}, maxConcurrentTasks)"
newNetworkWithoutLogging ==
    [len |-> 0, cap |-> MaxTasks, mx |-> Free,
     w |-> [x \in TaskProcs |-> [pc |-> "idle", n |-> 0, k |-> 0]]]

\* (mutant of SlotFree: a send on the slot channel never waits)
SlotFreeAlways(len, cap) == TRUE

\* "net.concurrentTasks <- struct{}{}" goes through while the channel holds
\* fewer values than its capacity
SlotFree(len, cap) == len < cap

-----------------------------------------------------------------------------
(* A BaseProcess with several InPorts (src/baseprocess.go), as the node     *)
(* bodies that call receiveOnInPorts have.  chan and closed are the         *)
(* channels of its InPorts; pc, todo, ips and inPortsOpen are the position  *)
(* and the variables of a call of receiveOnInPorts, todo being the InPorts  *)
(* the range loop has still to visit; got records, per InPort, what the     *)
(* receive expressions of the call returned.                                *)

BpInPorts == {"in1", "in2"}

\* "ips = make(map[string]*FileIP)"
NoIPs == [x \in {} |-> 0]

NewBaseProcess ==
    [chan |-> [x \in BpInPorts |-> <<>>], closed |-> [x \in BpInPorts |-> FALSE],
     pc |-> "idle", todo |-> {}, ips |-> NoIPs, inPortsOpen |-> TRUE,
     got |-> [x \in BpInPorts |-> <<>>]]

\* "ip, open := <-inPort.Chan" where it does not block: the buffered values
\* come first, also out of a closed channel, which then gives a nil ip (0)
ChanRecv(q) ==
    IF q # <<>> THEN [ip |-> Head(q), open |-> TRUE, rest |-> Tail(q)]
    ELSE [ip |-> 0, open |-> FALSE, rest |-> q]

\* (mutant of AfterClosed: the loop ends at the first closed InPort)
AfterClosedBreaks(todo, x) == {}

\* "if !open { inPortsOpen = false; continue }": the loop goes on with the
\* InPorts that remain
AfterClosed(todo, x) == todo \ {x}

-----------------------------------------------------------------------------
(* The channel-list Sink: src/sink.go.  inPorts is the backing array of the  *)
(* slice proc.inPorts and len its length: deleteInPortAtKey shifts the array *)
(* in place, while the range loop of Run() goes on over the n elements the   *)
(* slice had when the loop began.  pend, sent and open are the channels:     *)
(* the values handed to a channel and not yet received, the values sent so   *)
(* far, and whether it is still open.                                        *)

ListChans == 1..MaxChans

NewSink ==
    [inPorts |-> <<>>, len |-> 0, pc |-> "new", i |-> 0, n |-> 0,
     conn |-> {}, reported |-> {},
     pend |-> [ch \in ListChans |-> 0], sent |-> [ch \in ListChans |-> 0],
     got |-> [ch \in ListChans |-> 0], open |-> [ch \in ListChans |-> TRUE]]

\* "append(proc.inPorts[:i], proc.inPorts[i+1:]...)" with i counted from 0:
\* the slice expression proc.inPorts[i+1:] faults when i+1 exceeds the
\* slice's length
deleteInPortAtKey(S, i) ==
    IF i + 1 > S.len THEN [S EXCEPT !.pc = "panic: slice bounds out of range"]
    ELSE [S EXCEPT !.inPorts = [k \in DOMAIN S.inPorts |->
                                  IF k > i /\ k < S.len THEN S.inPorts[k + 1]
                                  ELSE S.inPorts[k]],
                   !.len = S.len - 1]

-----------------------------------------------------------------------------
(* The state after NewNetwork and the creation of the nodes and their ports *)

NoApi == [op |-> None, out |-> None, in |-> None, connected |-> FALSE]

NoCall ==
    [count |-> 0, kind |-> None, targets |-> {}, runSet |-> {}, scheduled |-> {},
     phase |-> "none", attached |-> {}, ran |-> [n \in AllNodes \cup Sinks |-> 0],
     closedBy |-> [i \in InOwners |-> {}], closes |-> [i \in InOwners |-> 0]]

Init ==
    /\ procs = {}
    /\ sink = DefaultSink
    /\ driver = DefaultSink
    /\ outRemote = [o \in OutOwners |-> {}]
    /\ inRemote = [i \in InOwners |-> {}]
    /\ outReady = [o \in OutOwners |-> FALSE]
    /\ inReady = [i \in InOwners |-> FALSE]
    /\ chan = [i \in InOwners |-> <<>>]
    /\ closed = [i \in InOwners |-> FALSE]
    /\ closeLock = [i \in InOwners |-> Free]
    /\ thr = [t \in Threads |-> IdleThread]
    /\ recvd = [n \in AllNodes \cup Sinks |-> <<>>]
    /\ status = "ok"
    /\ call = NoCall
    /\ lsink = NewSink
    /\ api = NoApi
    /\ registry = [n \in AllNodes |-> None]
    /\ ip = NewPacket
    /\ pnet = NewNet
    /\ bp = NewBaseProcess
    /\ noProc = {}
    /\ ct = newNetworkWithoutLogging

Ports == [outRemote |-> outRemote, inRemote |-> inRemote, outReady |-> outReady,
          inReady |-> inReady, fatal |-> FALSE]

SetPorts(P) ==
    /\ outRemote' = P.outRemote
    /\ inRemote' = P.inRemote
    /\ outReady' = P.outReady
    /\ inReady' = P.inReady

Building == status = "ok" /\ call.count = 0

-----------------------------------------------------------------------------
(* Network.procs maps a name to the node registered under it.  A node is a  *)
(* pair of its name and a serial number that tells apart the nodes          *)
(* constructed under one name; procs above is the key set of the map.       *)

NodeObjs == Nodes \X (1..MaxSame)
Node_Name(node) == node[1]

\* (mutant of Network_AddProc: a registered name is given the new node)
Network_AddProcOverwrites(G, node) ==
    IF G.fatal THEN G ELSE [G EXCEPT !.registry[Node_Name(node)] = node]

\* Network.AddProc
Network_AddProc(G, node) ==
    IF G.fatal THEN G
    ELSE IF G.registry[Node_Name(node)] # None THEN [G EXCEPT !.fatal = TRUE]
    ELSE [G EXCEPT !.registry[Node_Name(node)] = node]

\* Network.AddProcs
RECURSIVE Network_AddProcs(_, _)
Network_AddProcs(G, nodes) ==
    IF nodes = <<>> THEN G
    ELSE Network_AddProcs(Network_AddProc(G, Head(nodes)), Tail(nodes))

-----------------------------------------------------------------------------
(* Construction of the workflow, before the first run *)

\* Network.AddProc(node)
AddProc(n) ==
    /\ Building
    /\ IF n \in procs
       THEN status' = "fatal" /\ procs' = procs
       ELSE status' = status /\ procs' = procs \cup {n}
    /\ registry' = Network_AddProc([registry |-> registry, fatal |-> FALSE], <<n, 1>>).registry
    /\ UNCHANGED <<api, lsink, ct, noProc, bp, pnet, ip, sink, driver, portVars, chan, closed, closeLock, thr, recvd, call>>

\* Network.SetSink(sink)
SetSink(s) ==
    /\ Building
    /\ IF Sink_Ready(Ports, sink)
       THEN status' = "fatal" /\ sink' = sink
       ELSE status' = status /\ sink' = s
    /\ UNCHANGED <<registry, api, lsink, ct, noProc, bp, pnet, ip, procs, driver, portVars, chan, closed, closeLock, thr, recvd, call>>

Wire(P) ==
    /\ SetPorts(P)
    /\ status' = IF P.fatal THEN "fatal" ELSE status
    /\ UNCHANGED <<registry, api, lsink, ct, noProc, bp, pnet, ip, procs, sink, driver, chan, closed, closeLock, thr, recvd, call>>

\* in.From(out)
From(i, o) ==
    /\ Building
    /\ i # o
    /\ Wire(IF i \in noProc THEN [Ports EXCEPT !.fatal = TRUE]
            ELSE InPort_From(Ports, i, o))

\* out.To(in)
To(o, i) ==
    /\ Building
    /\ i # o
    /\ Wire(IF i \in noProc THEN [Ports EXCEPT !.fatal = TRUE]
            ELSE OutPort_To(Ports, o, i))

-----------------------------------------------------------------------------
(* Network.runProcs(procs): repair, readiness check, one goroutine per     *)
(* node of procs, and the driver's Run() called by the caller.  Run()      *)
(* passes net.procs itself, so the driver's removal from net.procs also    *)
(* removes it from the map runProcs then ranges over; RunToProcs passes a  *)
(* map of its own.                                                         *)

Quiet == \A t \in Threads : ~Running(t)

runProcs(kind, targets, runset) ==
    /\ status = "ok"
    /\ call.phase \in {"none", "returned"}
    /\ Quiet
    /\ \E order \in Orders(runset) :
         LET R0 == [outRemote |-> outRemote, inRemote |-> inRemote,
                    outReady |-> outReady, inReady |-> inReady, fatal |-> FALSE,
                    sink |-> sink, driver |-> driver, procs |-> procs,
                    found |-> FALSE, attached |-> {}, noProc |-> noProc]
             R == reconnectDeadEndConnections(R0, order, runset)
             ps == IF kind = "Run" THEN R.procs ELSE runset
             ok == ~R.fatal /\ readyToRun(R, ps)
             main == StartThread(R, R.driver)
         IN /\ SetPorts(R)
            /\ procs' = R.procs
            /\ registry' = [n \in AllNodes |-> IF n \in R.procs THEN registry[n] ELSE None]
            /\ driver' = R.driver
            /\ status' = IF ok THEN "ok" ELSE "fatal"
            /\ thr' = [t \in Threads |->
                         IF ~ok THEN IdleThread
                         ELSE IF t = "main"
                              THEN (IF main.pc = "done" THEN IdleThread ELSE main)
                         ELSE IF t \in ps THEN StartThread(R, t)
                         ELSE IdleThread]
            /\ call' = [NoCall EXCEPT
                          !.count = call.count + 1,
                          !.kind = kind,
                          !.targets = targets,
                          !.runSet = runset,
                          !.scheduled = IF ok THEN ps ELSE {},
                          !.phase = IF R.fatal THEN "fatalRepair"
                                    ELSE IF ~ok THEN "fatalReady"
                                    ELSE IF main.pc = "done" THEN "returned"
                                    ELSE "running",
                          !.attached = R.attached,
                          !.closedBy = call.closedBy,
                          !.closes = call.closes,
                          !.ran = [n \in AllNodes \cup Sinks |->
                                     IF ~ok THEN 0
                                     ELSE (IF n \in ps THEN 1 ELSE 0)
                                          + (IF n = R.driver THEN 1 ELSE 0)]]
    /\ UNCHANGED <<api, lsink, ct, noProc, bp, pnet, ip, sink, chan, closed, closeLock, recvd>>

\* Network.Run(), the first run of the Network
Run ==
    /\ call.count = 0
    /\ runProcs("Run", {}, procs)

\* Network.RunToProcs(finalProcs...), the first run of the Network
RunToProcs(targets) ==
    /\ call.count = 0
    /\ runProcs("RunToProcs", targets, RunToProcsSet(inRemote, targets))

-----------------------------------------------------------------------------
(* The goroutines *)

Live(t) == status = "ok" /\ Running(t)

OutOf(t) == thr[t].node

\* InPort.Send from OutPort.Send's loop: "pt.Chan <- ip" on one remote InPort.
\* A send on a closed channel panics; a send on a full channel waits.
\* (mutant of HasRoom: a send never waits)
HasRoomAlways(q) == TRUE

\* a buffered channel takes a value when it holds fewer than its capacity
HasRoom(q) == Len(q) < BufSize

SendTo(t, i) ==
    /\ Live(t)
    /\ thr[t].pc = "send"
    /\ i \in thr[t].todo
    /\ IF closed[i]
       THEN /\ status' = "panic: send on closed channel"
            /\ UNCHANGED <<chan, thr, call>>
       ELSE /\ HasRoom(chan[i])
            /\ chan' = [chan EXCEPT ![i] = Append(@, thr[t].cur)]
            /\ status' = status
            /\ Continue(t, [thr[t] EXCEPT !.todo = @ \ {i},
                                          !.enq[i] = @ + 1,
                                          !.pc = IF thr[t].todo = {i} THEN "sent" ELSE "send"],
                        call)
    /\ UNCHANGED <<registry, api, lsink, ct, noProc, bp, pnet, ip, procs, sink, driver, portVars, closed, closeLock, recvd>>

\* OutPort.Send has returned: FileSource goes on with its next item or, after
\* the last one, with the deferred CloseOutPorts; MapToTags receives again
AfterSend(t) ==
    /\ Live(t)
    /\ thr[t].pc = "sent"
    /\ LET n == thr[t].node
           rec == [thr[t] EXCEPT !.k = @ + 1]
       IN Continue(t,
                   IF InPorts(n) # {} THEN [thr[t] EXCEPT !.pc = "recv", !.cur = 0,
                                                       !.snap = {}, !.enq = ZeroEnq]
                   ELSE IF rec.k < ItemsOf(n) THEN EnterSend(rec, ItemOf(n, rec.k + 1), outRemote[n])
                   ELSE EnterClose([rec EXCEPT !.k = 0], outRemote[n]),
                   call)
    /\ UNCHANGED <<registry, api, lsink, ct, noProc, bp, pnet, ip, procs, sink, driver, portVars, chan, closed, closeLock, recvd, status>>

\* (mutant of RangeEnds: the loop ends as soon as the channel is closed)
RangeEndsOnClose(q, cl) == cl

\* a range over a channel ends once the channel is closed and drained
RangeEnds(q, cl) == q = <<>> /\ cl

\* "for ip := range In().Chan": receive one item, or leave the loop when the
\* channel is closed and drained
Recv(t) ==
    /\ Live(t)
    /\ thr[t].pc = "recv"
    /\ LET n == thr[t].node IN
       IF ~RangeEnds(chan[n], closed[n])
       THEN /\ chan[n] # <<>>
            /\ chan' = [chan EXCEPT ![n] = Tail(@)]
            /\ recvd' = [recvd EXCEPT ![n] = Append(@, Head(chan[n]))]
            /\ Continue(t,
                        IF OutPorts(n) # {} THEN EnterSend(thr[t], Head(chan[n]), outRemote[n])
                        ELSE thr[t],
                        call)
       ELSE /\ UNCHANGED <<chan, recvd>>
            /\ Continue(t,
                        IF OutPorts(n) # {} THEN EnterClose(thr[t], outRemote[n])
                        ELSE DoneThread,
                        call)
    /\ UNCHANGED <<registry, api, lsink, ct, noProc, bp, pnet, ip, procs, sink, driver, portVars, closed, closeLock, status>>

\* (mutant of DeleteRemote: the entry stays in the registry)
DeleteNothing(reg, o) == reg

\* "delete(pt.RemotePorts, rptName)" of InPort.CloseConnection
DeleteRemote(reg, o) == reg \ {o}

\* InPort.CloseConnection(rptName), first half, called from OutPort.Close's
\* loop: closeLock.Lock() and delete(pt.RemotePorts, rptName)
CloseConnectionLock(t, i) ==
    /\ Live(t)
    /\ thr[t].pc = "close"
    /\ i \in thr[t].todo
    /\ LockAcquirable(closeLock[i])
    /\ closeLock' = [closeLock EXCEPT ![i] = t]
    /\ inRemote' = [inRemote EXCEPT ![i] = DeleteRemote(@, OutOf(t))]
    /\ thr' = [thr EXCEPT ![t] = [@ EXCEPT !.pc = "closing", !.tgt = i]]
    /\ UNCHANGED <<registry, api, lsink, ct, noProc, bp, pnet, ip, procs, sink, driver, outRemote, outReady, inReady, chan, closed,
                   recvd, status, call>>

\* InPort.CloseConnection, second half: close(pt.Chan) if the registry is
\* empty, closeLock.Unlock(); then OutPort.Close's pt.removeRemotePort.
\* Closing a closed channel panics.
CloseConnectionUnlock(t) ==
    /\ Live(t)
    /\ thr[t].pc = "closing"
    /\ LET i == thr[t].tgt
           o == OutOf(t)
           doClose == CloseIfEmpty(inRemote[i])
           P == OutPort_removeRemotePort(Ports, o, i)
           c == [call EXCEPT !.closedBy[i] = @ \cup {o},
                             !.closes[i] = IF doClose THEN @ + 1 ELSE @]
           rest == thr[t].todo \ {i}
       IN IF doClose /\ closed[i]
          THEN /\ status' = "panic: close of closed channel"
               /\ call' = c
               /\ UNCHANGED <<closed, closeLock, portVars, thr>>
          ELSE /\ closed' = [closed EXCEPT ![i] = @ \/ doClose]
               /\ closeLock' = [closeLock EXCEPT ![i] = Free]
               /\ SetPorts(P)
               /\ status' = IF P.fatal THEN "fatal" ELSE status
               /\ Continue(t,
                           IF rest = {} THEN DoneThread
                           ELSE [thr[t] EXCEPT !.pc = "close", !.todo = rest, !.tgt = None],
                           c)
    /\ UNCHANGED <<registry, api, lsink, ct, noProc, bp, pnet, ip, procs, sink, driver, chan, recvd>>

Step(t) ==
    \/ \E i \in InOwners : SendTo(t, i)
    \/ AfterSend(t)
    \/ Recv(t)
    \/ \E i \in InOwners : CloseConnectionLock(t, i)
    \/ CloseConnectionUnlock(t)

Targets == {X \in SUBSET Nodes : Cardinality(X) <= MaxTargets}

Next ==
    \/ \E n \in Nodes : AddProc(n)
    \/ \E s \in Sinks : SetSink(s)
    \/ \E i \in InOwners \cap Nodes, o \in OutOwners \cap Nodes : From(i, o)
    \/ \E i \in InOwners \cap Nodes, o \in OutOwners \cap Nodes : To(o, i)
    \/ Run
    \/ \E X \in Targets : RunToProcs(X)
    \/ \E t \in Threads : Step(t)

Spec == Init /\ [][Next]_vars

-----------------------------------------------------------------------------
(* A workflow in which the owner of an InPort is taken away, by
   InPort.SetProcess(nil), while the workflow is built.  A connect call on
   such an InPort fails: AddRemotePort asks for its Name(). *)

InPort_SetProcess(i) ==
    /\ Building
    /\ i \notin noProc
    /\ noProc' = noProc \cup {i}
    /\ UNCHANGED <<registry, api, lsink, ct, bp, pnet, ip, procs, sink, driver, portVars, chan,
                   closed, closeLock, thr, recvd, status, call>>

NextOwnerless ==
    \/ Next
    \/ \E i \in InOwners \cap Nodes : InPort_SetProcess(i)

SpecOwnerless == Init /\ [][NextOwnerless]_vars

-----------------------------------------------------------------------------
(* Calling Run()/RunToProcs() again on the same Network.  net.driver, net.procs
   and the ports keep what the earlier run left in them.  A later call is taken
   only once the earlier call has returned and its workers have finished. *)

MaxRuns == 2       \* run calls on one Network

\* Network.Run(), a second or later call
RunAgain ==
    /\ call.count \in 1..(MaxRuns - 1)
    /\ runProcs("Run", {}, procs)

\* Network.RunToProcs(finalProcs...), a second or later call
RunToProcsAgain(targets) ==
    /\ call.count \in 1..(MaxRuns - 1)
    /\ runProcs("RunToProcs", targets, RunToProcsSet(inRemote, targets))

NextRerun ==
    \/ Next
    \/ RunAgain
    \/ \E X \in Targets : RunToProcsAgain(X)

SpecRerun == Init /\ [][NextRerun]_vars

-----------------------------------------------------------------------------
(* Fan-in: a new Network of two FileSources with one file path each and a
   StringPrinter, built and run once. *)

FanInNodes == FanInSources \cup {"c"}

NextFanIn ==
    \/ \E n \in FanInNodes : AddProc(n)
    \/ \E o \in FanInSources : From("c", o)
    \/ \E o \in FanInSources : To(o, "c")
    \/ Run
    \/ \E X \in {Y \in SUBSET FanInNodes : Cardinality(Y) <= MaxTargets} : RunToProcs(X)
    \/ \E t \in Threads : Step(t)

SpecFanIn == Init /\ [][NextFanIn]_vars

-----------------------------------------------------------------------------
(* The ports' methods called directly, one call at a time, on the ports of  *)
(* "a", "b", "c" and on the parameter ports of "p" and "q".                 *)

\* the ports' state with the channels' closed flags; "panic" is set where the
\* Go runtime panics on the close of a closed channel
PortsAndChans ==
    [outRemote |-> outRemote, inRemote |-> inRemote, outReady |-> outReady,
     inReady |-> inReady, fatal |-> FALSE, closed |-> closed, panic |-> FALSE]

\* InPort.CloseConnection and InParamPort.CloseConnection, from Lock to Unlock
InPort_CloseConnection(Q, i, o) ==
    IF Q.fatal \/ Q.panic THEN Q
    ELSE LET reg == DeleteRemote(Q.inRemote[i], o)
             Q1 == [Q EXCEPT !.inRemote[i] = reg]
         IN IF reg # {} THEN Q1
            ELSE IF Q.closed[i] THEN [Q1 EXCEPT !.panic = TRUE]
            ELSE [Q1 EXCEPT !.closed[i] = TRUE]

\* the loop of OutPort.Close over the remotes S still to be visited
RECURSIVE OutPort_CloseOver(_, _, _)
OutPort_CloseOver(Q, o, S) ==
    IF S = {} \/ Q.fatal \/ Q.panic THEN Q
    ELSE LET i == CHOOSE x \in S : TRUE
         IN OutPort_CloseOver(
                OutPort_removeRemotePort(InPort_CloseConnection(Q, i, o), o, i),
                o, S \ {i})

\* OutPort.Close
OutPort_Close(Q, o) == OutPort_CloseOver(Q, o, Q.outRemote[o])

\* BaseProcess.CloseOutPorts: Close() on every OutPort of the node
BaseProcess_CloseOutPorts(Q, n) == IF OutPorts(n) = {} THEN Q ELSE OutPort_Close(Q, n)

\* the loop of OutParamPort.Close
RECURSIVE OutParamPort_CloseOver(_, _, _)
OutParamPort_CloseOver(Q, o, S) ==
    IF S = {} \/ Q.fatal \/ Q.panic THEN Q
    ELSE LET i == CHOOSE x \in S : TRUE
         IN OutParamPort_CloseOver(
                OutParamPort_removeRemotePort(InPort_CloseConnection(Q, i, o), o, i),
                o, S \ {i})

\* OutParamPort.Close
OutParamPort_Close(Q, o) == OutParamPort_CloseOver(Q, o, Q.outRemote[o])

\* the two ports list each other
Linked(o, i) == i \in outRemote[o] /\ o \in inRemote[i]

\* one direct call of a port's method: op(o, i), with result Q
PortCall(op, o, i, Q) ==
    /\ Building
    /\ SetPorts(Q)
    /\ closed' = Q.closed
    /\ status' = IF Q.fatal THEN "fatal"
                 ELSE IF Q.panic THEN "panic: close of closed channel"
                 ELSE status
    /\ api' = [op |-> op, out |-> o, in |-> i, connected |-> i # None /\ Linked(o, i)]
    /\ UNCHANGED <<registry, lsink, ct, noProc, bp, pnet, ip, procs, sink, driver, chan, closeLock, thr, recvd, call>>

\* the result of a method that touches no channel
WithChans(P) ==
    [outRemote |-> P.outRemote, inRemote |-> P.inRemote, outReady |-> P.outReady,
     inReady |-> P.inReady, fatal |-> P.fatal, closed |-> closed, panic |-> FALSE]

PortOuts == {"a", "b"}
PortIns == {"b", "c"}
PortPairs == {pr \in PortOuts \X PortIns : pr[1] # pr[2]}

NextPorts ==
    \/ \E pr \in PortPairs :
         LET o == pr[1]
             i == pr[2]
         IN \/ PortCall("InPort.From", o, i, WithChans(InPort_From(Ports, i, o)))
            \/ PortCall("OutPort.To", o, i, WithChans(OutPort_To(Ports, o, i)))
            \/ PortCall("InPort.Disconnect", o, i, WithChans(InPort_Disconnect(Ports, i, o)))
            \/ PortCall("OutPort.Disconnect", o, i, WithChans(OutPort_Disconnect(Ports, o, i)))
            \/ PortCall("InPort.CloseConnection", o, i, InPort_CloseConnection(PortsAndChans, i, o))
    \/ \E o \in PortOuts : PortCall("OutPort.Close", o, None, OutPort_Close(PortsAndChans, o))
    \/ \E n \in PortOuts \cup PortIns :
         PortCall("BaseProcess.CloseOutPorts", n, None, BaseProcess_CloseOutPorts(PortsAndChans, n))
    \/ PortCall("InParamPort.From", "p", "q", WithChans(InParamPort_From(Ports, "q", "p")))
    \/ PortCall("OutParamPort.To", "p", "q", WithChans(OutParamPort_To(Ports, "p", "q")))
    \/ PortCall("OutParamPort.Disconnect", "p", "q", WithChans(OutParamPort_Disconnect(Ports, "p", "q")))
    \/ PortCall("InParamPort.CloseConnection", "p", "q", InPort_CloseConnection(PortsAndChans, "q", "p"))
    \/ PortCall("OutParamPort.Close", "p", None, OutParamPort_Close(PortsAndChans, "p"))

SpecPorts == Init /\ [][NextPorts]_vars

-----------------------------------------------------------------------------
(* AddProc and AddProcs called with nodes of which several may carry the    *)
(* same name                                                                *)

\* one call Network.AddProc(node) (op = "Network.AddProc", nodes = <<node>>)
\* or Network.AddProcs(nodes...)
AddProcCall(op, nodes) ==
    /\ Building
    /\ LET G == Network_AddProcs([registry |-> registry, fatal |-> FALSE], nodes)
       IN /\ registry' = G.registry
          /\ procs' = {n \in AllNodes : G.registry[n] # None}
          /\ status' = IF G.fatal THEN "fatal" ELSE status
    /\ api' = [op |-> op, out |-> nodes, in |-> None, connected |-> FALSE]
    /\ UNCHANGED <<lsink, ct, noProc, bp, pnet, ip, sink, driver, portVars, chan, closed, closeLock, thr, recvd, call>>

NextAddProc ==
    \/ \E node \in NodeObjs : AddProcCall("Network.AddProc", <<node>>)
    \/ \E one, two \in NodeObjs : AddProcCall("Network.AddProcs", <<one, two>>)

SpecAddProc == Init /\ [][NextAddProc]_vars

-----------------------------------------------------------------------------
(* AddTag and AddTags called on one IP *)

TagCall(op, m, T) ==
    /\ status = "ok"
    /\ ip' = [ip EXCEPT !.tags = T.tags]
    /\ status' = IF T.fatal THEN "fatal" ELSE status
    /\ api' = [op |-> op, out |-> m, in |-> None, connected |-> FALSE]
    /\ UNCHANGED <<registry, lsink, ct, noProc, bp, pnet, procs, sink, driver, portVars, chan, closed, closeLock,
                   thr, recvd, call>>

NextTags ==
    \/ \E k \in TagKeys, v \in TagValues :
         TagCall("AddTag", [x \in {k} |-> v], Packet_AddTag([tags |-> ip.tags, fatal |-> FALSE], k, v))
    \/ \E m \in UNION {[K -> TagValues] : K \in SUBSET TagKeys} :
         TagCall("AddTags", m, Packet_AddTags([tags |-> ip.tags, fatal |-> FALSE], m))

SpecTags == Init /\ [][NextTags]_vars

-----------------------------------------------------------------------------
(* FileIP.FinalizePath on an IP whose temp file is written by a tool at some *)
(* moment, or never                                                          *)

IpStep(fin, st) ==
    /\ status = "ok"
    /\ ip' = [ip EXCEPT !.fin = fin]
    /\ status' = st
    /\ UNCHANGED <<registry, api, lsink, ct, noProc, bp, pnet, procs, sink, driver, portVars, chan, closed,
                   closeLock, thr, recvd, call>>

\* the tool writes the temp file
WriteTempFile ==
    /\ ~ip.fin.temp /\ ~ip.fin.final
    /\ IpStep([ip.fin EXCEPT !.temp = TRUE], status)

\* FinalizePath is called: "tries := 0", "sleepDurationSec := 1"
FinalizePath_Call ==
    /\ ip.fin.pc = "idle"
    /\ IpStep([ip.fin EXCEPT !.pc = "loop", !.tries = 0, !.sleepDurationSec = 1], status)

\* one pass of "for !doneFinalizingPath" up to the Sleep: the temp file is
\* renamed, or the tries are exhausted (Failf), or the loop goes to sleep
FinalizePath_Loop ==
    /\ ip.fin.pc = "loop"
    /\ IF ip.fin.temp
       THEN IpStep([ip.fin EXCEPT !.pc = "done", !.temp = FALSE, !.final = TRUE], status)
       ELSE IF TriesExhausted(ip.fin.tries)
       THEN IpStep(ip.fin, "fatal")
       ELSE IpStep([ip.fin EXCEPT !.pc = "sleep"], status)

\* time.Sleep returns: "sleepDurationSec *= finalizePathBackoffFactor; tries++"
FinalizePath_Sleep ==
    /\ ip.fin.pc = "sleep"
    /\ IpStep([ip.fin EXCEPT !.pc = "loop",
                             !.slept = Append(@, ip.fin.sleepDurationSec),
                             !.sleepDurationSec = @ * finalizePathBackoffFactor,
                             !.tries = @ + 1], status)

\* the IP gets its tags before it is finalized
NextFinalize ==
    \/ ip.fin.pc = "idle" /\ NextTags
    \/ WriteTempFile
    \/ FinalizePath_Call
    \/ FinalizePath_Loop
    \/ FinalizePath_Sleep

SpecFinalize == Init /\ [][NextFinalize]_vars

-----------------------------------------------------------------------------
(* InParamPort.FromStr on q's parameter port, called with one string, and   *)
(* called again once the goroutine of the earlier call has finished, among  *)
(* other connect and disconnect calls on the same port                      *)

\* pip.FromStr(str): a new OutParamPort is made and connected with From, and a
\* goroutine is started that sends the string on it and then closes it
InParamPort_FromStr ==
    /\ Building
    /\ ~Running("feeder")
    /\ LET pop == [Ports EXCEPT !.outRemote["feeder"] = {}, !.outReady["feeder"] = FALSE]
           P == InParamPort_From(pop, "q", "feeder")
       IN /\ SetPorts(P)
          /\ status' = IF P.fatal THEN "fatal" ELSE status
          /\ thr' = [thr EXCEPT !["feeder"] =
                        IF P.fatal THEN IdleThread ELSE StartThread(P, "feeder")]
    /\ api' = [op |-> "InParamPort.FromStr", out |-> "feeder", in |-> "q", connected |-> FALSE]
    /\ UNCHANGED <<registry, lsink, ct, noProc, bp, pnet, ip, procs, sink, driver, chan, closed, closeLock, recvd, call>>

\* rpp.Process(): the feeder OutParamPort that FromStr makes is given the
\* process of the InParamPort it feeds ("pop.process = pip.Process()")
OutParamPort_Process(o) == IF o = "feeder" THEN "q" ELSE o

\* upstreamProcsForProc(n) of src/network.go, called below the calls for the
\* nodes in path, calls itself for a node that is on its own call path: the
\* registries being what they are, the recursion then goes on without end
RECURSIVE upstreamRecursesForEver(_, _, _)
upstreamRecursesForEver(reg, n, path) ==
    \/ n \in path
    \/ /\ n \in InOwners
       /\ \E o \in reg[n] : upstreamRecursesForEver(reg, OutParamPort_Process(o), path \cup {n})

\* upstreamProcsForProc(t) is called, as RunTo() and RunToProcs() call it for
\* each of their targets before anything else; a recursion without end
\* exhausts the stack, which is fatal
upstreamProcsForProc_Call(t) ==
    /\ Building
    /\ status' = IF upstreamRecursesForEver(inRemote, t, {}) THEN "fatal: stack overflow"
                 ELSE status
    /\ api' = [op |-> "upstreamProcsForProc", out |-> None, in |-> t, connected |-> FALSE]
    /\ UNCHANGED <<registry, lsink, ct, noProc, bp, pnet, ip, procs, sink, driver, portVars, chan,
                   closed, closeLock, thr, recvd, call>>

NextParamFeed ==
    \/ InParamPort_FromStr
    \/ \E t \in {"q", "c"} : upstreamProcsForProc_Call(t)
    \/ PortCall("InParamPort.From", "p", "q", WithChans(InParamPort_From(Ports, "q", "p")))
    \/ PortCall("OutParamPort.To", "p", "q", WithChans(OutParamPort_To(Ports, "p", "q")))
    \/ PortCall("OutParamPort.Disconnect", "p", "q", WithChans(OutParamPort_Disconnect(Ports, "p", "q")))
    \/ \E pr \in PortPairs :
         \/ PortCall("InPort.From", pr[1], pr[2], WithChans(InPort_From(Ports, pr[2], pr[1])))
         \/ PortCall("OutPort.Disconnect", pr[1], pr[2], WithChans(OutPort_Disconnect(Ports, pr[1], pr[2])))
    \/ SendTo("feeder", "q")
    \/ AfterSend("feeder")
    \/ CloseConnectionLock("feeder", "q")
    \/ CloseConnectionUnlock("feeder")

SpecParamFeed == Init /\ [][NextParamFeed]_vars

-----------------------------------------------------------------------------
(* A list-based runner is filled and run *)

NetStep(N, st) ==
    /\ status = "ok"
    /\ pnet' = N
    /\ status' = st
    /\ UNCHANGED <<registry, api, lsink, ct, noProc, bp, ip, procs, sink, driver, portVars, chan, closed,
                   closeLock, thr, recvd, call>>

\* Net.AddProcess(proc)
Net_AddProcess(x) ==
    /\ pnet.pc = "new"
    /\ \A k \in DOMAIN pnet.processes : pnet.processes[k] # x
    /\ NetStep([pnet EXCEPT !.processes = Append(@, x)], status)

\* Net.Run() is called: an empty Net exits the program
Net_Run ==
    /\ pnet.pc = "new"
    /\ IF pnet.processes = <<>> THEN NetStep(pnet, "fatal")
       ELSE NetStep([pnet EXCEPT !.pc = "loop", !.i = 1], status)

\* one pass of "for i, proc := range pl.processes", or the return after it
Net_Loop ==
    /\ pnet.pc = "loop"
    /\ LET n == Len(pnet.processes) IN
       IF pnet.i > n THEN NetStep([pnet EXCEPT !.pc = "returned"], status)
       ELSE LET proc == pnet.processes[pnet.i] IN
            IF RunsInCaller(pnet.i, n)
            THEN NetStep([pnet EXCEPT !.WasRun[proc] = TRUE, !.i = @ + 1], status)
            ELSE NetStep([pnet EXCEPT !.started = @ \cup {proc}, !.i = @ + 1], status)

\* a goroutine started by "go proc.Run()" gets to run BogusProcess.Run
Net_Goroutine(x) ==
    /\ x \in pnet.started
    /\ ~pnet.WasRun[x]
    /\ NetStep([pnet EXCEPT !.WasRun[x] = TRUE], status)

NextNet ==
    \/ \E x \in NetProcs : Net_AddProcess(x)
    \/ Net_Run
    \/ Net_Loop
    \/ \E x \in NetProcs : Net_Goroutine(x)

SpecNet == Init /\ [][NextNet]_vars

-----------------------------------------------------------------------------
(* IncConcurrentTasks and DecConcurrentTasks called by concurrent processes, *)
(* with any number of slots from 1 to one more than the capacity.  A process *)
(* whose IncConcurrentTasks(n) returned calls DecConcurrentTasks(n) at some  *)
(* later moment; a process may also call DecConcurrentTasks without having   *)
(* called IncConcurrentTasks.                                                *)

CtStep(C) ==
    /\ status = "ok"
    /\ ct' = C
    /\ UNCHANGED <<registry, api, lsink, noProc, bp, pnet, ip, procs, sink, driver, portVars,
                   chan, closed, closeLock, thr, recvd, status, call>>

\* IncConcurrentTasks(n) is called and waits at concurrentTasksMx.Lock()
IncConcurrentTasks_Call(x, n) ==
    /\ ct.w[x].pc = "idle"
    /\ CtStep([ct EXCEPT !.w[x] = [pc |-> "lock", n |-> n, k |-> 0]])

\* concurrentTasksMx.Lock() returns
IncConcurrentTasks_Lock(x) ==
    /\ ct.w[x].pc = "lock"
    /\ LockAcquirable(ct.mx)
    /\ CtStep([ct EXCEPT !.mx = x, !.w[x].pc = "send"])

\* one iteration of "for i := 0; i < slots; i++ { concurrentTasks <- struct{}{} }"
IncConcurrentTasks_Send(x) ==
    /\ ct.w[x].pc = "send"
    /\ ct.w[x].k < ct.w[x].n
    /\ SlotFree(ct.len, ct.cap)
    /\ CtStep([ct EXCEPT !.len = @ + 1, !.w[x].k = @ + 1])

\* the loop is over: concurrentTasksMx.Unlock() and return
IncConcurrentTasks_Unlock(x) ==
    /\ ct.w[x].pc = "send"
    /\ ct.w[x].k = ct.w[x].n
    /\ CtStep([ct EXCEPT !.mx = Free, !.w[x].pc = "holding", !.w[x].k = 0])

\* DecConcurrentTasks(n) is called: by a process whose IncConcurrentTasks(n)
\* returned, with the same n, or by a process that holds no slot
DecConcurrentTasks_Call(x, n) ==
    /\ \/ ct.w[x].pc = "holding" /\ n = ct.w[x].n
       \/ ct.w[x].pc = "idle"
    /\ CtStep([ct EXCEPT !.w[x] = [pc |-> "recv", n |-> n, k |-> 0]])

\* one iteration of "for i := 0; i < slots; i++ { <-concurrentTasks }", which
\* waits while the channel is empty; after the last one the call returns
DecConcurrentTasks_Recv(x) ==
    /\ ct.w[x].pc = "recv"
    /\ ct.len > 0
    /\ CtStep([ct EXCEPT !.len = @ - 1,
                         !.w[x] = IF @.k + 1 = @.n THEN [pc |-> "idle", n |-> 0, k |-> 0]
                                  ELSE [@ EXCEPT !.k = @ + 1]])

\* a step of process x inside a call, or its call of DecConcurrentTasks for
\* the slots it holds
CtProgress(x) ==
    \/ IncConcurrentTasks_Lock(x)
    \/ IncConcurrentTasks_Send(x)
    \/ IncConcurrentTasks_Unlock(x)
    \/ ct.w[x].pc = "holding" /\ DecConcurrentTasks_Call(x, ct.w[x].n)
    \/ DecConcurrentTasks_Recv(x)

NextTasks ==
    \/ \E x \in TaskProcs, n \in 1..(MaxTasks + 1) : IncConcurrentTasks_Call(x, n)
    \/ \E x \in TaskProcs : IncConcurrentTasks_Lock(x)
    \/ \E x \in TaskProcs : IncConcurrentTasks_Send(x)
    \/ \E x \in TaskProcs : IncConcurrentTasks_Unlock(x)
    \/ \E x \in TaskProcs, n \in 1..(MaxTasks + 1) : DecConcurrentTasks_Call(x, n)
    \/ \E x \in TaskProcs : DecConcurrentTasks_Recv(x)

SpecTasks == Init /\ [][NextTasks]_vars

-----------------------------------------------------------------------------
(* receiveOnInPorts called again and again on a BaseProcess whose InPorts   *)
(* are fed and closed by their senders                                      *)

BpStep(B) ==
    /\ status = "ok"
    /\ bp' = B
    /\ UNCHANGED <<registry, api, lsink, ct, noProc, ip, pnet, procs, sink, driver, portVars, chan,
                   closed, closeLock, thr, recvd, status, call>>

\* a sender's OutPort.Send puts an IP on the channel of InPort x
BpSend(x, v) ==
    /\ ~bp.closed[x]
    /\ HasRoom(bp.chan[x])
    /\ BpStep([bp EXCEPT !.chan[x] = Append(@, v)])

\* the sender's OutPort.Close closes the channel of InPort x
BpClose(x) ==
    /\ ~bp.closed[x]
    /\ BpStep([bp EXCEPT !.closed[x] = TRUE])

\* receiveOnInPorts is entered: inPortsOpen = true, ips = make(map)
receiveOnInPorts_Call ==
    /\ bp.pc \in {"idle", "returned"}
    /\ BpStep([bp EXCEPT !.pc = "loop", !.todo = BpInPorts, !.ips = NoIPs,
                         !.inPortsOpen = TRUE,
                         !.got = [y \in BpInPorts |-> <<>>]])

\* one iteration of the range loop, on InPort x (a Go map is ranged over in
\* any order); the receive blocks while the channel is empty and open
receiveOnInPorts_Recv(x) ==
    /\ bp.pc = "loop"
    /\ x \in bp.todo
    /\ bp.chan[x] # <<>> \/ bp.closed[x]
    /\ LET r == ChanRecv(bp.chan[x])
           g == [bp EXCEPT !.chan[x] = r.rest,
                           !.got[x] = Append(@, [ip |-> r.ip, open |-> r.open])]
       IN IF r.open
          THEN BpStep([g EXCEPT !.ips = [y \in DOMAIN @ \cup {x} |->
                                            IF y = x THEN r.ip ELSE @[y]],
                                !.todo = @ \ {x}])
          ELSE BpStep([g EXCEPT !.inPortsOpen = FALSE, !.todo = AfterClosed(@, x)])

\* the loop is over: return
receiveOnInPorts_Return ==
    /\ bp.pc = "loop"
    /\ bp.todo = {}
    /\ BpStep([bp EXCEPT !.pc = "returned"])

NextReceive ==
    \/ \E x \in BpInPorts, v \in 1..MaxIPs : BpSend(x, v)
    \/ \E x \in BpInPorts : BpClose(x)
    \/ receiveOnInPorts_Call
    \/ \E x \in BpInPorts : receiveOnInPorts_Recv(x)
    \/ receiveOnInPorts_Return

SpecReceive == Init /\ [][NextReceive]_vars

-----------------------------------------------------------------------------
(* A channel-list Sink, the channels connected to it before it runs, their
   producers, and Sink.Run() *)

\* Sink.Connect(ch)
ListSink_Connect(ch) ==
    /\ lsink.pc = "new"
    /\ ch \notin lsink.conn
    /\ lsink' = [lsink EXCEPT !.inPorts = Append(@, ch), !.len = @ + 1,
                              !.conn = @ \cup {ch}]

\* a producer hands a value to its channel
ChanSend(ch) ==
    /\ lsink.pc \in {"new", "outer", "inner"}
    /\ lsink.open[ch]
    /\ lsink.pend[ch] = 0
    /\ lsink.sent[ch] < MaxVals
    /\ lsink' = [lsink EXCEPT !.pend[ch] = 1, !.sent[ch] = @ + 1]

\* a producer closes its channel
ChanClose(ch) ==
    /\ lsink.pc \in {"new", "outer", "inner"}
    /\ lsink.open[ch]
    /\ lsink' = [lsink EXCEPT !.open[ch] = FALSE]

\* Sink.Run() is called
ListSink_Run ==
    /\ lsink.pc = "new"
    /\ lsink' = [lsink EXCEPT !.pc = "outer"]

\* "for len(proc.inPorts) > 0 {": the range loop starts over the slice as it is
ListSink_LoopTest ==
    /\ lsink.pc = "outer"
    /\ lsink' = IF lsink.len = 0 THEN [lsink EXCEPT !.pc = "returned"]
                ELSE [lsink EXCEPT !.pc = "inner", !.i = 0, !.n = lsink.len]

\* one iteration of "for i, ich := range proc.inPorts": the select receives a
\* value, finds the channel closed and deletes the entry, or takes the default;
\* a nil channel (0) is never ready, so that it takes the default
ListSink_Poll ==
    /\ lsink.pc = "inner"
    /\ IF lsink.i = lsink.n THEN lsink' = [lsink EXCEPT !.pc = "outer"]
       ELSE LET ch == lsink.inPorts[lsink.i + 1]
                S == [lsink EXCEPT !.i = @ + 1]
            IN lsink' = IF ch = 0 THEN S
                        ELSE IF lsink.pend[ch] > 0
                        THEN [S EXCEPT !.pend[ch] = @ - 1, !.got[ch] = @ + 1]
                        ELSE IF lsink.open[ch] THEN S
                        ELSE deleteInPortAtKey([S EXCEPT !.reported = @ \cup {ch}], lsink.i)

NextListSink ==
    /\ UNCHANGED netVars
    /\ \/ \E ch \in ListChans : ListSink_Connect(ch)
       \/ \E ch \in ListChans : ChanSend(ch)
       \/ \E ch \in ListChans : ChanClose(ch)
       \/ ListSink_Run
       \/ ListSink_LoopTest
       \/ ListSink_Poll

SpecListSink == Init /\ [][NextListSink]_vars

\* NewSink() of the later version of src/sink.go:
\* "inPorts: make([]chan *interface{}, BUFSIZE)", a list of BUFSIZE nil channels
NewSinkMake ==
    /\ lsink = NewSink
    /\ lsink' = [NewSink EXCEPT !.inPorts = [k \in 1..BufSize |-> 0], !.len = BufSize]
    /\ UNCHANGED netVars

\* a Sink made by either version of NewSink()
NextEitherSink ==
    \/ NextListSink
    \/ NewSinkMake

SpecEitherSink == Init /\ [][NextEitherSink]_vars

-----------------------------------------------------------------------------
(* Properties *)

Closing(o, i) ==
    \E t \in Threads : thr[t].pc = "closing" /\ thr[t].node = o /\ thr[t].tgt = i

\* C1: an InPort's channel is not closed while a feeder that has not called
\* Close() is still connected to it, and no Send of such a feeder finds the
\* channel closed; only the CloseConnection that empties the registry closes it.
C1_OpenUntilLastFeederCloses ==
    /\ status # "panic: send on closed channel"
    /\ \A o \in OutOwners, i \in InOwners :
         (i \in outRemote[o] /\ ~Closing(o, i)) => ~closed[i]
    /\ \A i \in InOwners : closed[i] => inRemote[i] = {}

\* C1 witness: one feeder of an InPort has closed its connection, another is
\* in the middle of a Send to that InPort, the channel is open and has room.
C1_Witness ==
    \E i \in InOwners, t \in Threads :
        /\ call.closedBy[i] # {}
        /\ thr[t].pc = "send"
        /\ i \in thr[t].todo
        /\ thr[t].node \in inRemote[i]
        /\ ~closed[i]
        /\ Len(chan[i]) < BufSize

\* C2: every InPort's channel is closed at most once, never a second time
\* (no close of a closed channel), and it is closed once every connected
\* feeder has run CloseConnection and no CloseConnection is in progress.
C2_ClosedExactlyOnce ==
    /\ status # "panic: close of closed channel"
    /\ \A i \in InOwners :
         /\ call.closes[i] <= 1
         /\ closed[i] <=> call.closes[i] = 1
         /\ (call.closedBy[i] # {} /\ inRemote[i] = {} /\ closeLock[i] = Free) => closed[i]

\* C2 witness: two distinct OutPorts have closed their connection to the same
\* InPort and its channel has been closed once.
C2_Witness ==
    \E i \in InOwners :
        /\ Cardinality(call.closedBy[i]) >= 2
        /\ call.closes[i] = 1
        /\ closed[i]

\* C10: when OutPort.Send returns, the item has been enqueued exactly once on
\* each InPort that was connected when Send was called, and on no other.
C10_SendReachesEveryRemoteOnce ==
    \A t \in Threads :
        thr[t].pc = "sent" =>
            \A i \in InOwners : thr[t].enq[i] = (IF i \in thr[t].snap THEN 1 ELSE 0)

\* C10 witness: a Send on an OutPort connected to two InPorts has returned.
C10_Witness ==
    \E t \in Threads :
        /\ thr[t].pc = "sent"
        /\ Cardinality(thr[t].snap) >= 2
        /\ \A i \in thr[t].snap : thr[t].enq[i] = 1

PortsAfter == [outRemote |-> outRemote', inRemote |-> inRemote', outReady |-> outReady',
               inReady |-> inReady', fatal |-> FALSE]

\* a step that is a call of runProcs whose repair returned
RepairReturns == call'.count = call.count + 1 /\ call'.phase # "fatalRepair"

\* C7: after the repair for a run-set that excludes a downstream node D, every
\* OutPort of a run-set node that was connected to D only is connected to the
\* Network's Sink and ready, every run-set node that was Ready() before the
\* repair is Ready() after it, and readyToRun succeeds if all of them were.
C7_ExcludedDownstreamGoesToSink ==
    [][RepairReturns =>
         /\ \A D \in Nodes \ call'.runSet, o \in OutOwners \cap call'.runSet :
              outRemote[o] = {D} =>
                  /\ outRemote'[o] = {sink'}
                  /\ o \in inRemote'[sink']
                  /\ outReady'[o]
         /\ \A n \in call'.runSet :
              BaseProcess_Ready(Ports, n) => BaseProcess_Ready(PortsAfter, n)
         /\ (call'.runSet # {} /\ \A n \in call'.runSet : BaseProcess_Ready(Ports, n))
              => call'.phase # "fatalReady"]_vars

\* C7 witness: a run is under way in which the repair rerouted to the Sink an
\* OutPort of a run-set node that had been connected to a node left out of
\* the run-set (whose InPort still lists it).
C7_Witness ==
    /\ call.phase = "running"
    /\ \E o \in call.attached, D \in (Nodes \cap InOwners) \ call.runSet :
         /\ o \in call.runSet
         /\ o \in inRemote[D]
         /\ outRemote[o] = {sink}

\* C8: after the repair, every InPort left in the registry of an OutPort of a
\* run-set node is owned by a run-set member or by the Network's Sink, and
\* every connection to a run-set member that existed before is still there.
C8_RepairKeepsRunSetEdgesOnly ==
    [][RepairReturns =>
         \A o \in OutOwners \cap call'.runSet :
             /\ outRemote'[o] \subseteq call'.runSet \cup {sink'}
             /\ (outRemote[o] \cap call'.runSet) \subseteq outRemote'[o]]_vars

\* C8 witness: a run is under way in which an OutPort of a run-set node lost
\* its connection to a node outside the run-set and kept one to a member.
C8_Witness ==
    /\ call.phase = "running"
    /\ \E o \in OutOwners \cap call.runSet, D \in (Nodes \cap InOwners) \ call.runSet :
         /\ o \in inRemote[D]
         /\ D \notin outRemote[o]
         /\ outRemote[o] \cap call.runSet # {}

\* S and the nodes with a directed path of connections into S, a connection
\* being one that either of its ports records

RECURSIVE Ancestors(_)
Ancestors(S) ==
    LET T == S \cup {m \in OutOwners : \E n \in S \cap InOwners :
                                             n \in outRemote[m] \/ m \in inRemote[n]}
    IN IF T = S THEN S ELSE Ancestors(T)

\* C9: the nodes whose Run() a RunToProcs(X) call that reaches scheduling
\* invokes are exactly X and the nodes with a directed path of connections
\* into a member of X.
C9_RunToProcsRunsUpstreamClosure ==
    [][(/\ call'.count = call.count + 1
        /\ call'.kind = "RunToProcs"
        /\ call'.phase \in {"running", "returned"})
       => {n \in Nodes : call'.ran[n] > 0} = Ancestors(call'.targets)]_vars

ZeroOut(S) == {n \in S : OutPorts(n) = {}}

Scheduled == call.phase \in {"running", "returned"}

\* no goroutine can take a step
Stuck == ~ENABLED (\E t \in Threads : Step(t))

\* every InPort of a run-set node has been connected, and every node wired
\* to a node of the run-set is itself in the run-set
WholeNetwork ==
    /\ \A n \in call.runSet \cap InOwners : inReady[n]
    /\ \A i \in InOwners \cap Nodes :
         inRemote[i] # {} => (i \in call.runSet /\ inRemote[i] \subseteq call.runSet)

\* C3 (as claimed): a Run() of an acyclic Network with exactly one
\* zero-out-port node returns: while it has not returned, some goroutine can
\* still take a step.
C3_RunReturns ==
    (/\ status = "ok"
     /\ call.kind = "Run"
     /\ call.phase = "running"
     /\ sink = DefaultSink
     /\ WholeNetwork
     /\ Cardinality(ZeroOut(call.runSet)) = 1)
    => ~Stuck

\* C4 (as claimed): the Driver of a run is the one zero-out-port node of the
\* run-set, and the Network's Sink when the run-set has none.
C4_DriverIsZeroOutNodeOrSink ==
    Scheduled =>
        /\ Cardinality(ZeroOut(call.runSet)) = 1 => driver \in ZeroOut(call.runSet)
        /\ ZeroOut(call.runSet) = {} => driver = sink

\* C5 (as claimed): in a run, the Run() of every node of the run-set and of
\* the Driver is invoked exactly once.
C5_EachNodeRunOnce ==
    Scheduled => \A n \in call.runSet \cup {driver} : call.ran[n] = 1

\* C6 (as claimed): the producer of an OutPort that the repair attached to the
\* Sink completes: when no goroutine can take a step any more, it has returned.
C6_SinkAttachedProducerCompletes ==
    (status = "ok" /\ Scheduled /\ sink = DefaultSink /\ WholeNetwork /\ Stuck)
    => \A o \in call.attached : ~Running(o)

-----------------------------------------------------------------------------
(* Delivery on an edge *)

\* the items FileSource o sends, in send order
Sent(o) == [k \in 1..ItemsOf(o) |-> ItemOf(o, k)]

IsPrefix(p, q) == Len(p) <= Len(q) /\ \A k \in 1..Len(p) : p[k] = q[k]

\* m's OutPort is or has been connected to n's InPort
EverFed(m, n) == m \in inRemote[n] \/ m \in call.closedBy[n] \/ Closing(m, n)

\* n's InPort has been connected, to o's OutPort and to no other
SoleFeeder(o, n) == inReady[n] /\ \A m \in OutOwners \ {o} : ~EverFed(m, n)

\* o's OutPort has been connected to n's InPort and to no other
OnlyTarget(o, n) ==
    /\ o \notin call.attached
    /\ \A i \in InOwners \ {n} : ~EverFed(o, i) /\ i \notin outRemote[o]

\* n's Run() has been invoked and no invocation is still in its range loop
RangeOver(n) ==
    /\ call.ran[n] > 0
    /\ \A t \in Threads : thr[t].node = n => thr[t].pc \in {"close", "closing"}

\* C11: on an edge from a single producer to a single consumer InPort, what
\* the consumer has received followed by what is buffered is always a prefix
\* of what the producer sends, in send order; the channel is closed only after
\* the last value; a consumer whose range loop has ended has received exactly
\* the sequence sent; and the run of the two nodes does not get stuck before
\* it returns.
C11_EdgeDeliversInOrder ==
    \A o \in {m \in AllNodes : InPorts(m) = {} /\ OutPorts(m) # {}}, n \in InOwners \cap Nodes :
        SoleFeeder(o, n) =>
            /\ IsPrefix(recvd[n] \o chan[n], Sent(o))
            /\ closed[n] => recvd[n] \o chan[n] = Sent(o)
            /\ RangeOver(n) => recvd[n] = Sent(o)
            /\ (status = "ok" /\ call.phase = "running" /\ call.runSet = {o, n}
                  /\ OnlyTarget(o, n))
                 => ~Stuck

\* C11 witness: Run() of a source and a printer joined by one edge has
\* returned, the printer having received everything the source sent.
C11_Witness ==
    /\ call.kind = "Run"
    /\ call.phase = "returned"
    /\ SoleFeeder("a", "c")
    /\ OnlyTarget("a", "c")
    /\ closed["c"]
    /\ recvd["c"] = Sent("a")

Range(q) == {q[k] : k \in DOMAIN q}

\* the run of a StringPrinter together with the two one-item FileSources
\* that feed its InPort, and nothing else feeds it
FanInRun(n) ==
    /\ Scheduled
    /\ FanInSources \cup {n} \subseteq call.runSet
    /\ \A o \in OutOwners : EverFed(o, n) <=> o \in FanInSources

\* C12: when two sources each send one item into the same InPort and then
\* close, the channel never holds or delivers an item twice or a foreign
\* item, it is closed only once both items have been sent, a consumer whose
\* range loop has ended has received exactly the two items, nothing faults,
\* and when nothing can move any more the run has returned and no process
\* is left blocked.
C12_FanInDeliversBothThenCloses ==
    FanInRun("c") =>
        LET both == {ItemOf(o, 1) : o \in FanInSources}
            seen == recvd["c"] \o chan["c"]
        IN /\ status = "ok"
           /\ \A x, y \in DOMAIN seen : seen[x] = seen[y] => x = y
           /\ Range(seen) \subseteq both
           /\ closed["c"] => Range(seen) = both
           /\ RangeOver("c") => (Range(recvd["c"]) = both /\ Len(recvd["c"]) = 2)
           /\ Stuck => (Quiet /\ call.phase = "returned" /\ closed["c"])

\* C12 witness: the run of two sources and the printer has returned, the
\* printer having received the second source's item before the first's.
C12_Witness ==
    /\ FanInRun("c")
    /\ call.phase = "returned"
    /\ Quiet
    /\ recvd["c"] = <<ItemOf("f", 1), ItemOf("e", 1)>>

NothingStarted ==
    /\ \A n \in AllNodes \cup Sinks : call.ran[n] = 0
    /\ \A t \in Threads : thr[t] = IdleThread
    /\ call.scheduled = {}

\* C13: a run whose run-set holds two or more nodes without OutPorts ends in
\* the fatal error state during the repair, whatever the order in which the
\* run-set is visited, and no node's Run() is started, as worker or as Driver.
C13_AmbiguousDriverIsFatal ==
    (call.count > 0 /\ Cardinality(ZeroOut(call.runSet)) >= 2)
    => (status = "fatal" /\ call.phase = "fatalRepair" /\ NothingStarted)

\* C13 witness: Run() of a Network holding a source, a printer fed by it and
\* a port-less node has ended in the fatal error state.
C13_Witness ==
    /\ call.kind = "Run"
    /\ call.runSet = {"a", "c", "d"}
    /\ "a" \in inRemote["c"]
    /\ status = "fatal"
    /\ NothingStarted

\* C14 (as claimed): a run whose run-set is empty, whose Sink is nil or in
\* whose run-set some node is not Ready() ends in the fatal error state with
\* no node's Run() started; only the other runs proceed to scheduling.
C14_UnreadyRunIsFatal ==
    (call.count > 0
       /\ ~readyToRun([sink |-> sink, inReady |-> inReady, outReady |-> outReady], call.runSet))
    => (status = "fatal" /\ NothingStarted)

\* C15: while a run call has not returned the Driver's Run(), called by the
\* caller, is still under way, and the call has returned as soon as that
\* Run() has, whether or not workers are still running or blocked.
C15_ReturnsWithDriver ==
    (call.count > 0 /\ status = "ok") =>
        /\ call.phase \in {"running", "returned"}
        /\ call.phase = "running" <=> Running("main")
        /\ Running("main") => thr["main"].node = driver

\* C15 witness: the call has returned after a Driver that received items,
\* while a worker has not finished.
C15_Witness ==
    /\ status = "ok"
    /\ call.phase = "returned"
    /\ recvd[driver] # <<>>
    /\ \E t \in AllNodes : Running(t)

\* C16 (as claimed): Sink.Run() never faults; its watch list holds exactly
\* the connected channels that have not reported closed; and when it has
\* returned every connected channel is closed and every value sent on it has
\* been received.
C16_ListSinkDrainsAndReturns ==
    /\ lsink.pc \in {"new", "outer", "inner", "returned"}
    /\ {lsink.inPorts[k] : k \in 1..lsink.len} = lsink.conn \ lsink.reported
    /\ lsink.pc = "returned" =>
         \A ch \in lsink.conn :
             ~lsink.open[ch] /\ lsink.pend[ch] = 0 /\ lsink.got[ch] = lsink.sent[ch]

\* C17 (as claimed): whatever From/To, Disconnect, Close and CloseConnection
\* calls have been made, a port is Ready() exactly when its remote registry
\* is not empty.
C17_ReadyIffRegistryNonEmpty ==
    status = "ok" =>
        /\ \A o \in OutOwners : outReady[o] <=> outRemote[o] # {}
        /\ \A i \in InOwners : inReady[i] <=> inRemote[i] # {}

\* C18: in.From(out) or out.To(in), called on two ports neither of which
\* lists the other, succeeds; afterwards each port's registry holds the other
\* (under the other's qualified name, which stands for its owning node here),
\* both ports are Ready(), and the state is the one From gives and the one To
\* gives alike.
C18_FromAndToConnectBothWays ==
    [][\A pr \in PortPairs :
         LET o == pr[1]
             i == pr[2]
         IN (/\ api'.op \in {"InPort.From", "OutPort.To"}
             /\ api'.out = o /\ api'.in = i
             /\ i \notin outRemote[o] /\ o \notin inRemote[i])
            => /\ status' = "ok"
               /\ i \in outRemote'[o] /\ o \in inRemote'[i]
               /\ outReady'[o] /\ inReady'[i]
               /\ PortsAfter = InPort_From(Ports, i, o)
               /\ PortsAfter = OutPort_To(Ports, o, i)]_vars

C18_Witness ==
    /\ status = "ok"
    /\ api = [op |-> "OutPort.To", out |-> "a", in |-> "c", connected |-> FALSE]
    /\ Linked("a", "c") /\ Linked("b", "c")
    /\ outReady["a"] /\ inReady["c"]

\* an OutPort lists an InPort exactly when the InPort lists the OutPort
Symmetric ==
    \A o \in OutOwners, i \in InOwners : i \in outRemote[o] <=> o \in inRemote[i]

\* C19 (as claimed): the registries are symmetric in every state reached by
\* calls of From, To, Disconnect and Close: none of these calls, made where
\* the registries are symmetric, leaves them otherwise.
C19_RegistriesStaySymmetric ==
    [][(/\ Symmetric
        /\ status' = "ok"
        /\ api'.op \in {"InPort.From", "OutPort.To", "InPort.Disconnect",
                        "OutPort.Disconnect", "OutPort.Close"})
       => Symmetric']_vars

\* C20: a From or To call for an OutPort and an InPort (or an OutParamPort
\* and an InParamPort) of which one already lists the other, and so for a
\* pair that is already connected, ends in the fatal error state, and no entry
\* is added for a remote that was already listed.
C20_SecondConnectIsFatal ==
    [][\A pr \in PortPairs \cup {<<"p", "q">>} :
         LET o == pr[1]
             i == pr[2]
         IN (/\ api'.op \in {"InPort.From", "OutPort.To", "InParamPort.From", "OutParamPort.To"}
             /\ api'.out = o /\ api'.in = i
             /\ (i \in outRemote[o] \/ o \in inRemote[i]))
            => /\ status' = "fatal"
               /\ i \in outRemote[o] => outRemote'[o] = outRemote[o]
               /\ o \in inRemote[i] => inRemote'[i] = inRemote[i]]_vars

C20_Witness ==
    /\ status = "fatal"
    /\ api = [op |-> "OutParamPort.To", out |-> "p", in |-> "q", connected |-> TRUE]
    /\ Linked("p", "q") /\ Linked("a", "c")

\* C21 (as claimed): Disconnect(name) on an InPort, an OutPort or an
\* OutParamPort whose registry does not hold name ends in the fatal error
\* state.
C21_DisconnectOfUnknownRemoteIsFatal ==
    [][\A pr \in PortPairs \cup {<<"p", "q">>} :
         LET o == pr[1]
             i == pr[2]
         IN /\ (api'.op = "InPort.Disconnect" /\ api'.out = o /\ api'.in = i
                  /\ o \notin inRemote[i]) => status' = "fatal"
            /\ (api'.op \in {"OutPort.Disconnect", "OutParamPort.Disconnect"}
                  /\ api'.out = o /\ api'.in = i
                  /\ i \notin outRemote[o]) => status' = "fatal"]_vars

\* a node is registered under the name n
Registered(n) == registry[n] # None

\* C22: the registry maps a name to the node that was added first under it:
\* an AddProc/AddProcs call registers each of its nodes whose name is free
\* under that name, never replaces a registered node, and is fatal when one
\* of its nodes carries a registered name; AddProc of such a node leaves the
\* registry as it was.
C22_RegistryKeepsFirstNodePerName ==
    [][api'.op \in {"Network.AddProc", "Network.AddProcs"} =>
         LET nodes == api'.out
             taken(k) == \/ Registered(Node_Name(nodes[k]))
                         \/ \E j \in 1..(k - 1) : Node_Name(nodes[j]) = Node_Name(nodes[k])
         IN /\ \A n \in Nodes : Registered(n) => registry'[n] = registry[n]
            /\ \A n \in Nodes :
                 (~Registered(n) /\ registry'[n] # None) =>
                     \E k \in DOMAIN nodes : registry'[n] = nodes[k] /\ Node_Name(nodes[k]) = n /\ ~taken(k)
            /\ status' = "fatal" <=> \E k \in DOMAIN nodes : taken(k)
            /\ status' = "ok" => \A k \in DOMAIN nodes : registry'[Node_Name(nodes[k])] = nodes[k]
            /\ (api'.op = "Network.AddProc" /\ taken(1)) => registry' = registry
            /\ procs' = {n \in AllNodes : registry'[n] # None}]_vars

C22_Witness ==
    /\ status = "fatal"
    /\ api.op = "Network.AddProc" /\ api.out = <<(<<"a", 2>>)>>
    /\ Registered("a") /\ Registered("b")
    /\ registry["a"] = <<"a", 1>> /\ registry["b"] = <<"b", 2>>

\* C23 (as claimed): for a key k that is on the IP with value v, the empty
\* string included, AddTag(k, w) with w # v is fatal and leaves the tag as it
\* is, and AddTag(k, v) changes nothing; AddTags treats each of its entries
\* so.
C23_ExistingTagIsNotReassigned ==
    [][api'.op \in {"AddTag", "AddTags"} =>
         LET m == api'.out
             clash == {k \in DOMAIN m : ip.tags[k] # Absent /\ m[k] # ip.tags[k]}
         IN /\ status' = "fatal" <=> clash # {}
            /\ \A k \in clash : ip'.tags[k] = ip.tags[k]
            /\ \A k \in TagKeys \ DOMAIN m : ip'.tags[k] = ip.tags[k]
            /\ (\A k \in DOMAIN m : ip.tags[k] = m[k]) => ip' = ip]_vars

\* the waits of a FinalizePath call that never finds its temp file
RECURSIVE Backoff(_)
Backoff(k) ==
    IF k = 0 THEN <<>>
    ELSE IF k = 1 THEN <<1>>
    ELSE Append(Backoff(k - 1), Backoff(k - 1)[k - 1] * finalizePathBackoffFactor)

\* C24: FinalizePath waits at most finalizePathMaxTries = 3 times, for 1, 4 and
\* 16 seconds in this order; it fails fatally only after these three waits,
\* with the temp file still missing, and as long as it has neither renamed the
\* file nor failed it has another step to take.
C24_FinalizePathBacksOffThreeTimes ==
    LET fin == ip.fin IN
    /\ Backoff(finalizePathMaxTries) = <<1, 4, 16>>
    /\ fin.tries = Len(fin.slept)
    /\ Len(fin.slept) <= finalizePathMaxTries
    /\ IsPrefix(fin.slept, <<1, 4, 16>>)
    /\ (status = "fatal" /\ fin.pc = "loop") => (fin.slept = <<1, 4, 16>> /\ ~fin.temp /\ ~fin.final)
    /\ (status = "ok" /\ fin.pc \in {"loop", "sleep"}) => ENABLED (FinalizePath_Loop \/ FinalizePath_Sleep)
    /\ fin.pc = "done" => fin.final

C24_Witness ==
    /\ status = "fatal"
    /\ ip.fin.pc = "loop"
    /\ ip.fin.slept = <<1, 4, 16>>
    /\ ip.tags["k1"] = "x"

\* C25: where CloseOutPorts() has been called on a node and has returned, a
\* second call on that node changes no registry, no ready flag and no
\* channel, and ends in no error.
C25_CloseOutPortsTwiceIsOnce ==
    (status = "ok" /\ api.op = "BaseProcess.CloseOutPorts")
    => /\ BaseProcess_CloseOutPorts(PortsAndChans, api.out) = PortsAndChans
       /\ \A o \in OutPorts(api.out) : outRemote[api.out] = {}

C25_Witness ==
    /\ status = "ok"
    /\ api.op = "BaseProcess.CloseOutPorts" /\ api.out = "a"
    /\ closed["b"] /\ closed["c"]
    /\ outRemote["a"] = {} /\ inRemote["b"] = {} /\ inRemote["c"] = {}

\* a thread is inside InPort.Send on i / inside a receive on its node's InPort
Sending(t, i) == Live(t) /\ thr[t].pc = "send" /\ i \in thr[t].todo
Receiving(t) == Live(t) /\ thr[t].pc = "recv"

\* C26: an InPort's channel never holds more items than its capacity; a Send
\* to an open InPort whose buffer is full cannot complete, and the sender
\* keeps the item meanwhile; a receive on an empty channel that is not closed
\* cannot complete.
C26_ChannelsAreBoundedAndBlock ==
    /\ \A i \in InOwners : Len(chan[i]) <= BufSize
    /\ \A t \in Threads, i \in InOwners :
         (Sending(t, i) /\ ~closed[i] /\ Len(chan[i]) = BufSize)
            => (~ENABLED SendTo(t, i) /\ thr[t].cur \in 1..(NItems + 2))
    /\ \A t \in Threads :
         (Receiving(t) /\ chan[thr[t].node] = <<>> /\ ~closed[thr[t].node])
            => ~ENABLED Recv(t)

C26_Witness ==
    /\ Sending("a", "b") /\ ~closed["b"] /\ Len(chan["b"]) = BufSize
    /\ Receiving("c") /\ chan["c"] = <<>> /\ ~closed["c"]
    /\ thr["b"].pc = "send"

\* C27 (as claimed): a connect, disconnect or repair step changes the
\* registries only while no goroutine of a worker or feeder is running, and
\* the only change a running goroutine makes to an InPort's registry is the
\* one of CloseConnection, made as it takes the port's lock.
C27_RegistriesChangeBeforeAnyGoroutine ==
    [][LET byGoroutine == thr' # thr /\ api' = api /\ call'.count = call.count
       IN /\ (~byGoroutine /\ (outRemote' # outRemote \/ inRemote' # inRemote))
                => \A t \in Threads : ~Running(t)
          /\ (byGoroutine /\ inRemote' # inRemote)
                => \E i \in InOwners, t \in Threads :
                      /\ Running(t) /\ closeLock[i] = Free /\ closeLock'[i] = t
                      /\ \A j \in InOwners \ {i} : inRemote'[j] = inRemote[j]]_vars

\* the process added last, and the processes added before it
LastAdded == pnet.processes[Len(pnet.processes)]
AddedEarlier == {pnet.processes[k] : k \in 1..(Len(pnet.processes) - 1)}

C29_RunRemovesOnlyTheDriver ==
    [][(call'.count # call.count /\ status' = "ok") =>
         /\ procs' = IF Cardinality(call'.runSet) = 1 \/ driver' \in Sinks THEN procs
                     ELSE procs \ {driver'}
         /\ \A n \in AllNodes : registry'[n] = IF n \in procs' THEN registry[n] ELSE None]_vars

\* C30: when receiveOnInPorts returns, it has received exactly once on every
\* InPort; inPortsOpen is false exactly when one of these receives found its
\* channel closed and drained; the returned map has no entry for such a port
\* and holds, for every other port, the value received from it.
C30_OneReceivePerInPort ==
    bp.pc = "returned" =>
        /\ \A x \in BpInPorts : Len(bp.got[x]) = 1
        /\ ~bp.inPortsOpen <=> \E x \in BpInPorts : ~bp.got[x][1].open
        /\ \A x \in BpInPorts :
              IF bp.got[x][1].open
              THEN x \in DOMAIN bp.ips /\ bp.ips[x] = bp.got[x][1].ip
              ELSE x \notin DOMAIN bp.ips

\* a round reported closed that still returns the value of the other InPort
C30_Witness ==
    /\ bp.pc = "returned"
    /\ ~bp.inPortsOpen
    /\ \E x \in BpInPorts : x \in DOMAIN bp.ips /\ bp.ips[x] = MaxIPs

\* C31: on every wiring (the connect calls build acyclic ones), for every node
\* t, upstreamProcsForProc(t) is the set of the nodes with a path of one or
\* more connections into t, as the InPorts' registries record them, and t is
\* not in it.
C31_UpstreamIsTransitiveClosure ==
    \A t \in AllNodes \cup Sinks :
        LET N == Cardinality(AllNodes)
            feeders(S) == UNION {inRemote[m] : m \in S \cap InOwners}
            up[k \in 0..N] == IF k = 0 THEN feeders({t})
                              ELSE up[k - 1] \cup feeders(up[k - 1])
        IN /\ upstreamProcsForProc(inRemote, t) = up[N]
           /\ t \notin upstreamProcsForProc(inRemote, t)

\* RunToProcs(c) was called on a chain a -> b -> c: a is upstream of c without
\* feeding it
C31_Witness ==
    /\ call.kind = "RunToProcs"
    /\ "c" \in call.targets
    /\ "a" \in upstreamProcsForProc(inRemote, "c")
    /\ "a" \notin inRemote["c"]

\* C32 (as claimed): when a run call finds an OutPort of a run-set node
\* connected to an InPort without an owning node, the repair completes without
\* a fatal error, the edge is gone, and the OutPort is connected again (to the
\* Sink, if nothing else was left).
C32_OwnerlessEdgeIsDroppedByRepair ==
    [][\A o \in OutOwners \cap Nodes, i \in noProc :
          (call'.count # call.count /\ o \in call'.runSet /\ i \in outRemote[o])
             => /\ call'.phase # "fatalRepair"
                /\ i \notin outRemote'[o]
                /\ outRemote'[o] # {}]_vars

\* C33 (as claimed): the node a run call executes as Driver is a member of
\* that call's run-set or a Sink, in the first call and in every later call on
\* the same Network: a node elected by an earlier call is not executed by a
\* call whose run-set does not contain it.  (Which Sink is executed after
\* SetSink is C34's matter; any Sink is accepted here.)
C33_DriverIsOfThisRun ==
    [][(call'.count # call.count /\ status' = "ok")
          => driver' \in call'.runSet \cup Sinks]_vars

\* C34 (as claimed): in a run call made after SetSink(s) replaced the Sink, the
\* dangling OutPorts are attached to s, and s is the Driver the call executes
\* when the run-set holds no node without OutPorts.
C34_AttachedSinkIsTheSinkRun ==
    [][(call'.count # call.count /\ status' = "ok" /\ sink # DefaultSink)
          => /\ \A o \in call'.attached : o \in inRemote'[sink]
             /\ (\A n \in call'.runSet : OutPorts(n) # {}) => driver' = sink]_vars

\* C35: whatever IncConcurrentTasks and DecConcurrentTasks calls the processes
\* make, the slot channel never holds more than maxConcurrentTasks values nor
\* fewer than zero, and its capacity is the maxConcurrentTasks of NewNetwork.
C35_SlotsWithinCapacity ==
    /\ ct.len \in 0..MaxTasks
    /\ ct.cap = MaxTasks

\* all slots are taken while one process waits for a slot inside
\* IncConcurrentTasks and another waits for one to give back
C35_Witness ==
    /\ ct.len = MaxTasks
    /\ \E x \in TaskProcs : ct.w[x].pc = "send" /\ ct.w[x].k < ct.w[x].n
    /\ \E x \in TaskProcs : ct.w[x].pc = "holding"

\* C36: at most one process is inside the slot-by-slot acquisition of
\* IncConcurrentTasks; and while every call in progress asks for no more than
\* maxConcurrentTasks slots, a process waiting inside IncConcurrentTasks is
\* never stuck for good: some process inside a call, or holding slots it will
\* give back, can take a step.
C36_AcquisitionIsAtomicAndNeverStuck ==
    /\ Cardinality({x \in TaskProcs : ct.w[x].pc = "send"}) <= 1
    /\ ((\A x \in TaskProcs : ct.w[x].n <= ct.cap)
          /\ (\E x \in TaskProcs : ct.w[x].pc \in {"lock", "send"}))
         => \E x \in TaskProcs : ENABLED CtProgress(x)

\* one process waits for the mutex while the other, inside its acquisition,
\* waits for a slot
C36_Witness ==
    /\ \E x \in TaskProcs : ct.w[x].pc = "lock" /\ ~LockAcquirable(ct.mx)
    /\ \E x \in TaskProcs : /\ ct.w[x].pc = "send" /\ ct.w[x].k < ct.w[x].n
                            /\ ct.w[x].n <= ct.cap /\ ~SlotFree(ct.len, ct.cap)

\* C37 (as claimed): no value is sent on a closed channel: a goroutine inside
\* OutPort.Send, whose OutPort has therefore not called Close(), finds the
\* channel of every remote InPort it has still to send to open.
C37_NoSendOnClosedChannel ==
    /\ status # "panic: send on closed channel"
    /\ \A t \in Threads :
          (Running(t) /\ thr[t].pc = "send") => \A i \in thr[t].todo : ~closed[i]

\* C38 (as claimed): when a run call starts the nodes, every InPort of a
\* run-set node is fed only by OutPorts of nodes that this call runs.
C38_FeedersAreScheduled ==
    [][(call'.count # call.count /\ status' = "ok")
          => \A n \in call'.runSet \cap InOwners :
                inRemote'[n] \subseteq call'.scheduled \cup {driver'}]_vars

\* C39 (as claimed): a channel-list Sink to which no channel has been
\* connected has an empty watch list, and its Run() returns without entering
\* the polling loop; a Sink to which only closed channels are connected does
\* not fail while it removes them.
C39_NewSinkWatchesNothing ==
    /\ lsink.conn = {} => lsink.len = 0 /\ lsink.pc \in {"new", "outer", "returned"}
    /\ (\A ch \in lsink.conn : ~lsink.open[ch])
          => lsink.pc \in {"new", "outer", "inner", "returned"}

\* C40 (as claimed): a call of upstreamProcsForProc(t), and with it RunTo()
\* and RunToProcs(), returns on every wiring the connect calls build, also
\* while a feeder that FromStr connected to an InParamPort has not yet closed.
C40_UpstreamReturns ==
    api.op = "upstreamProcsForProc" => status = "ok"

=============================================================================
